---- MODULE Spec2Model ----
(***************************************************************************)
(* Excel Manager (week2.1.py): a Streamlit script that manages .xlsx files *)
(* in one data folder.  Every user interaction re-runs the script: the     *)
(* selected file is read into a DataFrame df, shown as an all-text         *)
(* editable copy, and one pressed button rewrites the file.                *)
(*                                                                         *)
(* Text is modelled as a sequence of one-character strings, so that        *)
(* lower(), strip(), endswith() and the f-string suffixes are computed.    *)
(* A cell is a record [k, n, s]: k = "num" with the number n, k = "text"   *)
(* with the characters s, or k = "absent" (NaN / None / an empty sheet     *)
(* cell).  A table is [cols, rows]: the column names and the rows, each    *)
(* row a sequence of cells aligned with cols.                              *)
(***************************************************************************)
EXTENDS Integers, Sequences, FiniteSets, TLC

VARIABLES
    files,          \* the data folder: file name -> what the file holds
    current_file,   \* the sidebar selectbox
    edited,         \* edited_df: what st.data_editor returns
    edits,          \* edits made in the editor since the last run
    notices,        \* what the last run reported (toast, info, warning, ...)
    last            \* the button pressed in the last run: [op, col_names, dirty]

vars == <<files, current_file, edited, edits, notices, last>>

(***************************************************************************)
(* Bounds of the model.                                                    *)
(***************************************************************************)
MaxCols == 3
MaxRows == 2
MaxCells == 2
MaxEdits == 1

(***************************************************************************)
(* Text helpers: str.lower, str.strip, str.endswith, str(int).             *)
(***************************************************************************)
LowerChar(c) ==
    CASE c = "A" -> "a" [] c = "B" -> "b" [] c = "C" -> "c" [] c = "E" -> "e"
      [] c = "L" -> "l" [] c = "M" -> "m" [] c = "N" -> "n" [] c = "O" -> "o"
      [] c = "R" -> "r" [] c = "S" -> "s" [] c = "W" -> "w" [] c = "X" -> "x"
      [] OTHER -> c

Lower(s) == [i \in 1..Len(s) |-> LowerChar(s[i])]

RECURSIVE LStrip(_)
LStrip(s) == IF s # <<>> /\ Head(s) = " " THEN LStrip(Tail(s)) ELSE s

RECURSIVE RStrip(_)
RStrip(s) ==
    IF s # <<>> /\ s[Len(s)] = " " THEN RStrip(SubSeq(s, 1, Len(s) - 1)) ELSE s

Strip(s) == RStrip(LStrip(s))

EndsWith(s, suffix) ==
    /\ Len(s) >= Len(suffix)
    /\ SubSeq(s, Len(s) - Len(suffix) + 1, Len(s)) = suffix

Digit(d) ==
    CASE d = 0 -> "0" [] d = 1 -> "1" [] d = 2 -> "2" [] d = 3 -> "3"
      [] d = 4 -> "4" [] d = 5 -> "5" [] d = 6 -> "6" [] d = 7 -> "7"
      [] d = 8 -> "8" [] d = 9 -> "9"

RECURSIVE IntStr(_)
IntStr(n) == IF n < 10 THEN <<Digit(n)>> ELSE IntStr(n \div 10) \o <<Digit(n % 10)>>

DigitVal(c) ==
    CASE c = "0" -> 0 [] c = "1" -> 1 [] c = "2" -> 2 [] c = "3" -> 3
      [] c = "4" -> 4 [] c = "5" -> 5 [] c = "6" -> 6 [] c = "7" -> 7
      [] c = "8" -> 8 [] c = "9" -> 9 [] OTHER -> -1

IsDigits(s) == s # <<>> /\ \A i \in 1..Len(s) : DigitVal(s[i]) >= 0

RECURSIVE DigitsVal(_)
DigitsVal(s) ==
    IF s = <<>> THEN 0 ELSE 10 * DigitsVal(SubSeq(s, 1, Len(s) - 1)) + DigitVal(s[Len(s)])

(***************************************************************************)
(* Cells.                                                                  *)
(***************************************************************************)
Absent == [k |-> "absent", n |-> 0, s |-> <<>>]
Num(n) == [k |-> "num", n |-> n, s |-> <<>>]
Text(s) == [k |-> "text", n |-> 0, s |-> s]

\* A float literal with a zero fraction, "5.0": what str() gives for a whole
\* number held in a float64 column.
IsFloatText(s) ==
    /\ Len(s) >= 3
    /\ SubSeq(s, Len(s) - 1, Len(s)) = <<".", "0">>
    /\ IsDigits(SubSeq(s, 1, Len(s) - 2))

\* Whether a text parses as a number (the numerals of the model are the
\* whole numbers, written "5" or "5.0").
ParsesAsNumber(s) == IsDigits(s) \/ IsFloatText(s)

NumberOf(s) == IF IsDigits(s) THEN DigitsVal(s) ELSE DigitsVal(SubSeq(s, 1, Len(s) - 2))

FloatStr(n) == IntStr(n) \o <<".", "0">>

NanText == <<"n", "a", "n">>
NoneText == <<"N", "o", "n", "e">>

\* The strings pandas reads as a missing value by default (those the model's
\* texts can spell).
NAStrings == {<<>>, NanText, NoneText, <<"N", "a", "N">>, <<"N", "A">>}

(***************************************************************************)
(* The sheet of a file, as DataFrame.to_excel(index=False) writes it and   *)
(* pandas.read_excel reads it.  A file is [kind, cols, rows]: kind "none"  *)
(* (no such file), "sheet", "zero" (a zero-length file) or "corrupt".      *)
(***************************************************************************)
NoFile == [kind |-> "none", cols |-> <<>>, rows |-> <<>>]

\* to_excel: the header row, then one sheet row per table row; a missing
\* value and the empty string are written as an empty cell (na_rep = "").  A
\* table without columns puts no cell on the sheet at all.
XCell(c) == IF c.k = "text" /\ c.s = <<>> THEN Absent ELSE c

to_excel(df) ==
    [kind |-> "sheet",
     cols |-> df.cols,
     rows |-> IF df.cols = <<>> THEN <<>>
              ELSE [r \in 1..Len(df.rows) |->
                        [j \in 1..Len(df.cols) |-> XCell(df.rows[r][j])]]]

BlankRow(row) == \A j \in 1..Len(row) : row[j].k = "absent"

\* read_excel's sheet reader drops the trailing rows that hold no value.
RECURSIVE TrimRows(_)
TrimRows(rows) ==
    IF rows # <<>> /\ BlankRow(rows[Len(rows)])
    THEN TrimRows(SubSeq(rows, 1, Len(rows) - 1))
    ELSE rows

\* read_excel's parser: a text that spells a missing value is read as one.
NaCell(c) == IF c.k = "text" /\ c.s \in NAStrings THEN Absent ELSE c

\* read_excel: per column, the missing-value strings become absent; a column
\* whose every value is a number or a text that parses as one is read as
\* numbers (int64, or float64 when it holds a missing value or a float
\* literal); any other column is read as it stands, dtype object.  A column
\* without rows is object.
read_excel(sheet) ==
    LET rs == TrimRows(sheet.rows)
        raw(r, j) == NaCell(rs[r][j])
        numeric(j) ==
            \A r \in 1..Len(rs) :
                \/ raw(r, j).k \in {"num", "absent"}
                \/ raw(r, j).k = "text" /\ ParsesAsNumber(raw(r, j).s)
        conv(r, j) ==
            IF numeric(j) /\ raw(r, j).k = "text"
            THEN Num(NumberOf(raw(r, j).s))
            ELSE raw(r, j)
        dtype(j) ==
            IF rs = <<>> \/ ~numeric(j) THEN "object"
            ELSE IF \E r \in 1..Len(rs) :
                        \/ raw(r, j).k = "absent"
                        \/ raw(r, j).k = "text" /\ IsFloatText(raw(r, j).s)
                 THEN "float64"
                 ELSE "int64"
    IN  [cols |-> sheet.cols,
         rows |-> [r \in 1..Len(rs) |-> [j \in 1..Len(sheet.cols) |-> conv(r, j)]],
         dtypes |-> [j \in 1..Len(sheet.cols) |-> dtype(j)]]

EmptyFrame == [cols |-> <<>>, rows |-> <<>>, dtypes |-> <<>>]

\* safe_read_excel: a missing or zero-length file is an empty table, a read
\* that fails is an empty table too (with a warning).
safe_read_excel(file) == IF file.kind = "sheet" THEN read_excel(file) ELSE EmptyFrame

ReadWarns(file) == file.kind = "corrupt"

\* df[[c for c in df.columns if c.lower() not in ["name", "row name"]]]
LegacyNames == {<<"n", "a", "m", "e">>, <<"r", "o", "w", " ", "n", "a", "m", "e">>}

KeptCols(df) == {j \in 1..Len(df.cols) : Lower(df.cols[j]) \notin LegacyNames}

RECURSIVE Ascending(_)
Ascending(S) ==
    IF S = {} THEN <<>>
    ELSE LET m == CHOOSE x \in S : \A y \in S : x <= y
         IN  <<m>> \o Ascending(S \ {m})

\* The columns at the indices ix (ascending), in that order.
SelectCols(df, ix) ==
    [cols |-> [i \in 1..Len(ix) |-> df.cols[ix[i]]],
     rows |-> [r \in 1..Len(df.rows) |-> [i \in 1..Len(ix) |-> df.rows[r][ix[i]]]],
     dtypes |-> [i \in 1..Len(ix) |-> df.dtypes[ix[i]]]]

\* The table the main section works on: the file read, its legacy columns
\* removed.
LoadDf(file) ==
    LET df == safe_read_excel(file) IN SelectCols(df, Ascending(KeptCols(df)))

is_numeric_dtype(dtype) == dtype \in {"int64", "float64"}

\* df.astype(str): every cell becomes its text.
StrCell(c, dtype) ==
    CASE c.k = "text" -> c
      [] c.k = "absent" -> Text(NanText)
      [] c.k = "num" -> IF dtype = "float64" THEN Text(FloatStr(c.n)) ELSE Text(IntStr(c.n))

astype_str(df) ==
    [cols |-> df.cols,
     rows |-> [r \in 1..Len(df.rows) |->
                  [j \in 1..Len(df.cols) |-> StrCell(df.rows[r][j], df.dtypes[j])]]]

\* Faulty variant of to_numeric (errors='ignore'): a text that does not parse
\* is kept.  C7 must tell it from the code.
to_numeric_ignore(c) ==
    IF c.k = "text" /\ ParsesAsNumber(c.s) THEN Num(NumberOf(c.s)) ELSE c

\* pd.to_numeric(..., errors='coerce') on one cell.
to_numeric(c) ==
    IF c.k = "num" THEN c
    ELSE IF c.k = "text" /\ ParsesAsNumber(c.s) THEN Num(NumberOf(c.s))
    ELSE Absent

\* restore_dtypes: the columns that were numeric at load are parsed back.
restore_dtypes(original_dtypes, view) ==
    [cols |-> view.cols,
     rows |-> [r \in 1..Len(view.rows) |->
                  [j \in 1..Len(view.cols) |->
                      IF is_numeric_dtype(original_dtypes[j])
                      THEN to_numeric(view.rows[r][j])
                      ELSE view.rows[r][j]]]]

(***************************************************************************)
(* Helpers of the script (lines 61-86).                                    *)
(***************************************************************************)
XlsxExt == <<".", "x", "l", "s", "x">>

\* list_excel_files: the names in the folder that end in .xlsx, whatever the
\* case (the order of the list decides nothing below, so it is kept a set).
list_excel_files(fs) ==
    {f \in DOMAIN fs : fs[f].kind # "none" /\ EndsWith(Lower(f), XlsxExt)}

\* safe_write_excel: the write either replaces the file or fails; a failure is
\* reported with st.error and nothing is returned or raised to the caller.
safe_write_excel(fs, path, df, ok) ==
    IF ok
    THEN [fs |-> [fs EXCEPT ![path] = to_excel(df)], out |-> {"toast: Saved successfully"}]
    ELSE [fs |-> fs, out |-> {"error: Failed to save"}]

\* Faulty variant of create_excel without the os.path.exists test.  C8 must
\* tell it from the code.
create_excel_overwrite(fs, path, ok) ==
    LET w == safe_write_excel(fs, path, EmptyFrame, ok)
    IN  [fs |-> w.fs, out |-> w.out \cup {"balloons"}]

\* create_excel: an existing path is left alone.
create_excel(fs, path, ok) ==
    IF fs[path].kind # "none"
    THEN [fs |-> fs, out |-> {"info: File already exists."}]
    ELSE LET w == safe_write_excel(fs, path, EmptyFrame, ok)
         IN  [fs |-> w.fs, out |-> w.out \cup {"balloons"}]

(***************************************************************************)
(* The table operations of the main section.                               *)
(***************************************************************************)
ColumnPrefix == <<"C", "o", "l", "u", "m", "n", "_">>

\* Lines 137-141: a typed name that is "name" (stripped, any case) is replaced
\* by Column_<number of columns of df + 1>.
TypedName(col_name, df) ==
    IF Lower(Strip(col_name)) = <<"n", "a", "m", "e">>
    THEN ColumnPrefix \o IntStr(Len(df.cols) + 1)
    ELSE col_name

InCols(name, cols) == \E j \in 1..Len(cols) : cols[j] = name

\* Faulty variant of the loop: the suffix is appended to the name tried last,
\* not to the original name (A, A_2, A_2_3).  C2 must tell it from the code.
RECURSIVE Unused_Accumulate(_, _, _, _)
Unused_Accumulate(name, original_name, k, cols) ==
    IF InCols(name, cols)
    THEN Unused_Accumulate(name \o <<"_">> \o IntStr(k), original_name, k + 1, cols)
    ELSE name

\* Lines 144-148: while name in df.columns: name = f"{original_name}_{k}"; k += 1
RECURSIVE Unused(_, _, _, _)
Unused(name, original_name, k, cols) ==
    IF InCols(name, cols)
    THEN Unused(original_name \o <<"_">> \o IntStr(k), original_name, k + 1, cols)
    ELSE name

\* Faulty variant of the batch: the names are appended as typed, no collision
\* is resolved.  C1 must tell it from the code.
AddAll_Unresolved(cols, names) == cols \o names

\* Lines 143-149: each name of the batch in turn, against the columns so far.
RECURSIVE AddAll(_, _)
AddAll(cols, names) ==
    IF names = <<>> THEN cols
    ELSE AddAll(Append(cols, Unused(Head(names), Head(names), 2, cols)), Tail(names))

\* df[name] = None, for the whole batch.
add_columns(df, col_names) ==
    LET cols == AddAll(df.cols, col_names)
    IN  [cols |-> cols,
         rows |-> [r \in 1..Len(df.rows) |->
                      [j \in 1..Len(cols) |->
                          IF j <= Len(df.cols) THEN df.rows[r][j] ELSE Absent]]]

\* df.drop(columns=cols_to_drop, errors="ignore")
delete_columns(df, cols_to_drop) ==
    LET keep == Ascending({j \in 1..Len(df.cols) : df.cols[j] \notin cols_to_drop})
    IN  [cols |-> [i \in 1..Len(keep) |-> df.cols[keep[i]]],
         rows |-> [r \in 1..Len(df.rows) |->
                      [i \in 1..Len(keep) |-> df.rows[r][keep[i]]]]]

\* pd.concat([df, blanks], ignore_index=True)
add_rows(df, nrows) ==
    [cols |-> df.cols,
     rows |-> df.rows \o [i \in 1..nrows |-> [j \in 1..Len(df.cols) |-> Absent]]]

\* edited_df.drop(index=rows_to_delete).reset_index(drop=True); the indices are
\* zero-based.
delete_rows(view, rows_to_delete) ==
    LET keep == Ascending({r \in 1..Len(view.rows) : (r - 1) \notin rows_to_delete})
    IN  [cols |-> view.cols, rows |-> [i \in 1..Len(keep) |-> view.rows[keep[i]]]]

\* edited_df.empty
IsEmpty(view) == view.cols = <<>> \/ view.rows = <<>>

(***************************************************************************)
(* The files and the widget inputs of the model.                           *)
(***************************************************************************)
NoneSel == <<>>            \* the selectbox's "— None —"

FileX == <<"x", ".", "x", "l", "s", "x">>
NotXlsx == <<"x", ".", "t", "x", "t">>
w_name ==
    <<"W", "a", "r", "e", "h", "o", "u", "s", "e", " ", "N", "u", "m", "b", "e", "r", " ", "O", "n", "e", ".", "x", "l", "s", "x">>

TemplateCols ==
    <<<<"P", "r", "o", "d", "u", "c", "t">>,
      <<"Q", "u", "a", "n", "t", "i", "t", "y">>,
      <<"A", "m", "o", "u", "n", "t">>,
      <<"W", "e", "i", "g", "h", "t">>,
      <<"P", "r", "o", "d", "u", "c", "t", " ", "S", "e", "r", "i", "a", "l", " ", "N", "u", "m", "b", "e", "r">>,
      <<"P", "r", "o", "d", "u", "c", "t", " ", "S", "u", "p", "p", "l", "i", "e", "r">>>>

FileNames == {FileX, w_name}

ColA == <<"A">>
ColB == <<"B">>
abc == <<"a", "b", "c">>

\* What the user types into an editor cell.
EditTexts == {<<"5">>, abc}

EmptyView == [cols |-> <<>>, rows |-> <<>>]

\* df, as every run of the script loads it (lines 118-123).
Df == IF current_file = NoneSel THEN EmptyFrame ELSE LoadDf(files[current_file])

\* What the editor shows at the start of a run: df_editable (line 179).
ViewOf(fs, cur) == IF cur = NoneSel THEN EmptyView ELSE astype_str(LoadDf(fs[cur]))

\* What a run reports before any button: the warning of a read that failed.
ReadNotices(fs, cur) ==
    IF cur # NoneSel /\ ReadWarns(fs[cur]) THEN {"warning: Failed to read file"} ELSE {}

\* The selectbox keeps its value while its options stay the same.
Selected(fs, cur) == IF list_excel_files(fs) = list_excel_files(files) THEN cur ELSE NoneSel

Pressed(op) == [op |-> op, col_names |-> <<>>, dirty |-> FALSE]

\* A button of the columns-and-rows card; dirty: the editor held something
\* other than df_editable when it was pressed.
PressedCard(op, typed) ==
    [op |-> op, col_names |-> typed, dirty |-> edited # astype_str(Df)]

\* A run that ends in st.rerun(): the script starts over on the new folder.
Rerun(fs, cur, out, pressed) ==
    /\ files' = fs
    /\ current_file' = cur
    /\ edited' = ViewOf(fs, cur)
    /\ edits' = 0
    /\ notices' = out
    /\ last' = pressed

(***************************************************************************)
(* Sidebar (lines 89-114).                                                 *)
(***************************************************************************)
SelectFile(f) ==
    /\ f \in list_excel_files(files) \cup {NoneSel}
    /\ f # current_file
    /\ Rerun(files, f, ReadNotices(files, f), Pressed("Select"))

CreateFile(new_name, ok) ==
    LET pressed == Pressed("Create File")
    IN  IF ~EndsWith(Lower(new_name), XlsxExt)
        THEN /\ notices' = {"warning: Add the .xlsx extension."}
             /\ last' = pressed
             /\ UNCHANGED <<files, current_file, edited, edits>>
        ELSE LET c == create_excel(files, new_name, ok)
             IN  Rerun(c.fs, Selected(c.fs, current_file), c.out, pressed)

DeleteFile(ok) ==
    /\ current_file # NoneSel
    /\ LET pressed == Pressed("Delete Selected File")
       IN  IF ok
           THEN Rerun([files EXCEPT ![current_file] = NoFile], NoneSel,
                      {"toast: File deleted"}, pressed)
           ELSE /\ notices' = {"error: Failed to delete file"}
                /\ last' = pressed
                /\ UNCHANGED <<files, current_file, edited, edits>>

(***************************************************************************)
(* Template file (lines 232-243): df.to_excel is not guarded here.         *)
(***************************************************************************)
CreateTemplate(ok) ==
    LET fs == IF files[w_name].kind = "none" /\ ok
              THEN [files EXCEPT ![w_name] =
                        to_excel([cols |-> TemplateCols, rows |-> <<>>])]
              ELSE files
        cur == Selected(fs, current_file)
    IN  /\ files' = fs
        /\ current_file' = cur
        /\ edited' = IF cur = current_file THEN edited ELSE ViewOf(fs, cur)
        /\ edits' = IF cur = current_file THEN edits ELSE 0
        /\ notices' = IF files[w_name].kind # "none" THEN {"warning: File already exists."}
                      ELSE IF ok THEN {"success: File created", "balloons"}
                      ELSE {"exception"}
        /\ last' = Pressed("Create Template File")

(***************************************************************************)
(* Main section (lines 117-226).  The number inputs allow 1..20 columns    *)
(* and 1..50 rows; the model edits tables of at most MaxCols columns,      *)
(* MaxRows rows and MaxCells cells.                                        *)
(***************************************************************************)
MaxNcols == 20
MaxNrows == 50

Fits(ncols, nrows) == ncols <= MaxCols /\ nrows <= MaxRows /\ ncols * nrows <= MaxCells

Editable(df) == current_file # NoneSel /\ Fits(Len(df.cols), Len(df.rows))

\* Lines 132-152.
AddColumns(typed, ok) ==
    LET df == Df
        col_names == [i \in 1..Len(typed) |-> TypedName(typed[i], df)]
        w == safe_write_excel(files, current_file, add_columns(df, col_names), ok)
    IN  /\ Editable(df)
        /\ Len(typed) \in 1..MaxNcols
        /\ Fits(Len(df.cols) + Len(typed), Len(df.rows))
        /\ Rerun(w.fs, current_file, w.out \cup {"balloons"},
                 PressedCard("Add Columns", typed))

\* Lines 155-162: the button is disabled while nothing is selected.
DeleteColumns(cols_to_drop, ok) ==
    LET df == Df
        w == safe_write_excel(files, current_file, delete_columns(df, cols_to_drop), ok)
    IN  /\ Editable(df)
        /\ cols_to_drop # {}
        /\ cols_to_drop \subseteq {df.cols[j] : j \in 1..Len(df.cols)}
        /\ Rerun(w.fs, current_file, w.out \cup {"toast: Columns deleted"},
                 PressedCard("Delete Selected Columns", <<>>))

\* Faulty variant of Add Rows that appends to the table the editor shows.
\* C10 must tell it from the code.
AddRows_FromView(nrows, ok) ==
    LET df == Df
        w == safe_write_excel(files, current_file, add_rows(edited, nrows), ok)
    IN  /\ Editable(df)
        /\ nrows \in 1..MaxNrows
        /\ Fits(Len(df.cols), Len(df.rows) + nrows)
        /\ Rerun(w.fs, current_file, w.out \cup {"balloons"},
                 PressedCard("Add Rows", <<>>))

\* Lines 165-173.
AddRows(nrows, ok) ==
    LET df == Df
        w == safe_write_excel(files, current_file, add_rows(df, nrows), ok)
    IN  /\ Editable(df)
        /\ nrows \in 1..MaxNrows
        /\ Fits(Len(df.cols), Len(df.rows) + nrows)
        /\ Rerun(w.fs, current_file, w.out \cup {"balloons"},
                 PressedCard("Add Rows", <<>>))

\* Lines 201-205: no st.rerun() here, the editor keeps what it shows.
SaveTable(ok) ==
    LET df == Df
        original_dtypes == df.dtypes
        edited_df_to_save == restore_dtypes(original_dtypes, edited)
        w == safe_write_excel(files, current_file, edited_df_to_save, ok)
    IN  /\ Editable(df)
        /\ files' = w.fs
        /\ notices' = w.out \cup {"balloons"}
        /\ last' = Pressed("Save Table")
        /\ UNCHANGED <<current_file, edited, edits>>

\* Lines 208-220: shown only while the editor's table is not empty.
DeleteSelectedRows(rows_to_delete, ok) ==
    LET new_df == delete_rows(edited, rows_to_delete)
        w == safe_write_excel(files, current_file, new_df, ok)
    IN  /\ Editable(Df)
        /\ ~IsEmpty(edited)
        /\ rows_to_delete # {}
        /\ rows_to_delete \subseteq 0..(Len(edited.rows) - 1)
        /\ Rerun(w.fs, current_file, w.out \cup {"toast: Rows deleted", "balloons"},
                 Pressed("Delete Selected Rows"))

\* Lines 223-225.
Reload ==
    /\ current_file # NoneSel
    /\ Rerun(files, current_file, ReadNotices(files, current_file), Pressed("Reload Table"))

(***************************************************************************)
(* The data editor (lines 181-188, num_rows="dynamic"): the user retypes a *)
(* cell, clears it, appends a row or removes one.  Each change is a run of *)
(* the script with no button pressed; nothing is written.                  *)
(***************************************************************************)
EditCell(r, j, c) ==
    /\ Editable(Df)
    /\ edits < MaxEdits
    /\ r \in 1..Len(edited.rows)
    /\ j \in 1..Len(edited.cols)
    /\ edited.rows[r][j] # c
    /\ edited' = [edited EXCEPT !.rows[r][j] = c]
    /\ edits' = edits + 1
    /\ notices' = ReadNotices(files, current_file)
    /\ last' = Pressed("none")
    /\ UNCHANGED <<files, current_file>>

EditorAddRow ==
    /\ Editable(Df)
    /\ edits < MaxEdits
    /\ edited.cols # <<>>
    /\ Fits(Len(edited.cols), Len(edited.rows) + 1)
    /\ edited' = [edited EXCEPT !.rows = Append(@, [j \in 1..Len(edited.cols) |-> Absent])]
    /\ edits' = edits + 1
    /\ notices' = ReadNotices(files, current_file)
    /\ last' = Pressed("none")
    /\ UNCHANGED <<files, current_file>>

EditorDeleteRow(r) ==
    /\ Editable(Df)
    /\ edits < MaxEdits
    /\ r \in 1..Len(edited.rows)
    /\ edited' = [edited EXCEPT !.rows = SubSeq(@, 1, r - 1) \o SubSeq(@, r + 1, Len(@))]
    /\ edits' = edits + 1
    /\ notices' = ReadNotices(files, current_file)
    /\ last' = Pressed("none")
    /\ UNCHANGED <<files, current_file>>

(***************************************************************************)
(* The application: the folder exists (line 59) and may already hold       *)
(* x.xlsx, written by an earlier session or put there by the user.         *)
(***************************************************************************)
Name == <<"N", "a", "m", "e">>

InitCells == {Num(5), Text(abc), Absent}

InitCols == {<<ColA>>, <<ColA, ColB>>, <<Name, ColA>>}

InitSheets ==
    {[kind |-> "sheet", cols |-> cs, rows |-> rs] :
        cs \in InitCols,
        rs \in UNION {[1..m -> UNION {[1..n -> InitCells] : n \in 1..2}] : m \in 0..MaxRows}}

WellFormed(sheet) ==
    /\ \A r \in 1..Len(sheet.rows) : Len(sheet.rows[r]) = Len(sheet.cols)
    /\ Len(sheet.cols) * Len(sheet.rows) <= MaxCells
    /\ sheet.cols = <<>> => sheet.rows = <<>>

InitFiles ==
    {NoFile, [NoFile EXCEPT !.kind = "zero"], [NoFile EXCEPT !.kind = "corrupt"]}
        \cup {sh \in InitSheets : WellFormed(sh)}

Init ==
    /\ files \in {[f \in FileNames |-> IF f = FileX THEN x ELSE NoFile] : x \in InitFiles}
    /\ current_file = NoneSel
    /\ edited = EmptyView
    /\ edits = 0
    /\ notices = {}
    /\ last = Pressed("start")

TypedNames == {ColA}

\* The batches of at most n typed names.
Batches(names, n) == UNION {[1..m -> names] : m \in 1..n}

EditorCells == {Text(t) : t \in EditTexts} \cup {Absent}

Next ==
    \/ \E f \in FileNames \cup {NoneSel} : SelectFile(f)
    \/ \E new_name \in {FileX, NotXlsx}, ok \in BOOLEAN : CreateFile(new_name, ok)
    \/ \E ok \in BOOLEAN : DeleteFile(ok)
    \/ \E ok \in BOOLEAN : CreateTemplate(ok)
    \/ \E typed \in Batches(TypedNames, MaxCols - Len(Df.cols)), ok \in BOOLEAN : AddColumns(typed, ok)
    \/ \E cols_to_drop \in SUBSET {Df.cols[j] : j \in 1..Len(Df.cols)}, ok \in BOOLEAN :
           DeleteColumns(cols_to_drop, ok)
    \/ \E nrows \in 1..MaxRows, ok \in BOOLEAN : AddRows(nrows, ok)
    \/ \E ok \in BOOLEAN : SaveTable(ok)
    \/ \E rows_to_delete \in SUBSET (0..(MaxRows - 1)), ok \in BOOLEAN :
           DeleteSelectedRows(rows_to_delete, ok)
    \/ Reload
    \/ \E r \in 1..MaxRows, j \in 1..MaxCols, c \in EditorCells : EditCell(r, j, c)
    \/ EditorAddRow
    \/ \E r \in 1..MaxRows : EditorDeleteRow(r)

Spec == Init /\ [][Next]_vars

(***************************************************************************)
(* The column operations alone, on a selected file, with names typed that  *)
(* collide with each other, with existing columns, with the suffixed names *)
(* and with the placeholder.                                               *)
(***************************************************************************)
ColA2 == <<"A", "_", "2">>
Column1 == <<"C", "o", "l", "u", "m", "n", "_", "1">>
PaddedNAME == <<" ", "N", "A", "M", "E", " ">>

WideNames == {ColA, ColA2, Name, PaddedNAME, Column1}

ColInitCols == {<<>>, <<ColA>>, <<Column1>>, <<Name, ColA>>, <<ColA, ColA2>>}

ColInitSheets ==
    UNION {{sh \in {[kind |-> "sheet", cols |-> cs, rows |-> rs] :
                       rs \in {<<>>, <<[j \in 1..Len(cs) |-> Num(5)]>>}} :
               WellFormed(sh)} :
           cs \in ColInitCols}

InitColumns ==
    /\ files \in {[f \in FileNames |-> IF f = FileX THEN x ELSE NoFile] : x \in ColInitSheets}
    /\ current_file = FileX
    /\ edited = ViewOf(files, FileX)
    /\ edits = 0
    /\ notices = {}
    /\ last = Pressed("start")

NextColumns ==
    \/ \E typed \in Batches(WideNames, MaxCols - Len(Df.cols)), ok \in BOOLEAN : AddColumns(typed, ok)
    \/ \E cols_to_drop \in SUBSET {Df.cols[j] : j \in 1..Len(Df.cols)}, ok \in BOOLEAN :
           DeleteColumns(cols_to_drop, ok)
    \/ Reload

SpecColumns == InitColumns /\ [][NextColumns]_vars

(***************************************************************************)
(* Properties.                                                             *)
(***************************************************************************)
WriteFailed == "error: Failed to save" \in notices

Unique(cols) == \A i, j \in 1..Len(cols) : cols[i] = cols[j] => i = j

Suffixed(base, k) == base \o <<"_">> \o IntStr(k)

\* C1: after Add Columns has written the table, for any batch of typed names
\* (repeated, equal to existing columns, "name" in any case), no two columns
\* of the table have the same name and no column is named "name" in any
\* letter case.
C1_AddColumnsUniqueNoName ==
    (last.op = "Add Columns" /\ ~WriteFailed) =>
        /\ Unique(files[current_file].cols)
        /\ \A j \in 1..Len(files[current_file].cols) :
               Lower(files[current_file].cols[j]) # Lower(Name)

\* C1 witness: a batch was added whose names collided (a suffixed column
\* stands beside its base) next to a placeholder column.
C1_Witness ==
    /\ last.op = "Add Columns" /\ ~WriteFailed
    /\ InCols(ColA, files[current_file].cols)
    /\ InCols(ColA2, files[current_file].cols)
    /\ \E j \in 1..Len(files[current_file].cols) :
           /\ Len(files[current_file].cols[j]) > Len(ColumnPrefix)
           /\ SubSeq(files[current_file].cols[j], 1, Len(ColumnPrefix)) = ColumnPrefix

\* The columns Add Columns is to produce from the columns `before` and the
\* typed names: the old columns first, then one new column per typed name, in
\* order; "name" (any case) stands for Column_<count of old columns + 1>; a
\* name already taken gets _k for the smallest k >= 2 that is free.
ColumnsAsSpecified(before, typed, after) ==
    /\ Len(after) = Len(before) + Len(typed)
    /\ SubSeq(after, 1, Len(before)) = before
    /\ \A i \in 1..Len(typed) :
           LET base == IF Lower(Strip(typed[i])) = Lower(Name)
                       THEN ColumnPrefix \o IntStr(Len(before) + 1)
                       ELSE typed[i]
               taken == {after[j] : j \in 1..(Len(before) + i - 1)}
               new == after[Len(before) + i]
           IN  IF base \notin taken THEN new = base
               ELSE \E k \in 2..(Len(after) + 1) :
                        /\ new = Suffixed(base, k)
                        /\ new \notin taken
                        /\ \A k2 \in 2..(k - 1) : Suffixed(base, k2) \in taken

\* C2: every Add Columns step that writes keeps the existing columns first, in
\* order, appends the new ones in request order with the _2, _3, ... suffixes
\* and the placeholder as specified; "A","A","Name" on an empty table gives
\* A, A_2, Column_1.
C2_AddColumnsOrderAndSuffix ==
    [][(last'.op = "Add Columns" /\ ~WriteFailed') =>
           /\ ColumnsAsSpecified(Df.cols, last'.col_names, files'[current_file].cols)
           /\ (Df.cols = <<>> /\ last'.col_names = <<ColA, ColA, Name>>) =>
                  files'[current_file].cols = <<ColA, ColA2, Column1>>]_vars

\* C2 witness: the scenario's table, just added to an empty one.
C2_Witness ==
    /\ last.op = "Add Columns"
    /\ last.col_names = <<ColA, ColA, Name>>
    /\ ~WriteFailed
    /\ files[current_file].cols = <<ColA, ColA2, Column1>>

\* The rows without the row at the zero-based index i.
RemoveAt(rows, i) == SubSeq(rows, 1, i) \o SubSeq(rows, i + 2, Len(rows))

Unedited == edited = astype_str(Df)

C4_AddRowsGrowsByN ==
    [][\A n \in 1..MaxRows :
           AddRows(n, TRUE) =>
               LET before == Df.rows
                   after == LoadDf(files'[current_file]).rows
               IN  /\ Len(after) = Len(before) + n
                   /\ SubSeq(after, 1, Len(before)) = before
                   /\ \A r \in (Len(before) + 1)..Len(after) : BlankRow(after[r])]_vars

\* C5: whatever Save Table or Delete Selected Rows writes has had its types
\* restored: in a column that was numeric at load no cell is written as text.
C5_ViewNeverWrittenUnrestored ==
    [][(last'.op \in {"Save Table", "Delete Selected Rows"} /\ ~WriteFailed') =>
           \A j \in 1..Len(Df.cols) :
               is_numeric_dtype(Df.dtypes[j]) =>
                   \A r \in 1..Len(files'[current_file].rows) :
                       files'[current_file].rows[r][j].k # "text"]_vars

\* C6: the loaded table, turned into the editable view and restored with no
\* edit, has in every column that is not numeric the cells it had, a missing
\* value included.
C6_RoundTripKeepsTextColumns ==
    current_file # NoneSel =>
        LET df == Df
            back == restore_dtypes(df.dtypes, astype_str(df))
        IN  \A j \in 1..Len(df.cols) :
                ~is_numeric_dtype(df.dtypes[j]) =>
                    \A r \in 1..Len(df.rows) : back.rows[r][j] = df.rows[r][j]

\* C7: Save Table stores, in a column that was numeric at load, the number a
\* cell's text parses to and nothing where it does not parse; in any other
\* column it stores the cell as edited.
C7_SaveCoercesNumericKeepsText ==
    [][(last'.op = "Save Table" /\ ~WriteFailed') =>
           LET df == Df
               stored == files'[current_file]
           IN  /\ stored.cols = edited.cols
               /\ Len(stored.rows) = Len(edited.rows)
               /\ \A r \in 1..Len(edited.rows), j \in 1..Len(edited.cols) :
                      LET e == edited.rows[r][j]
                          c == stored.rows[r][j]
                      IN  IF is_numeric_dtype(df.dtypes[j])
                          THEN IF e.k = "text" /\ ParsesAsNumber(e.s)
                               THEN c = Num(NumberOf(e.s))
                               ELSE c = Absent
                          ELSE c = e]_vars

\* C7 witness: Save Table has stored a numeric column in which one edited text
\* parsed and one did not.
C7_Witness ==
    /\ last.op = "Save Table" /\ ~WriteFailed
    /\ \E j \in 1..Len(edited.cols), r1, r2 \in 1..Len(edited.rows) :
           /\ edited.rows[r1][j] = Text(abc)
           /\ files[current_file].rows[r1][j] = Absent
           /\ edited.rows[r2][j].k = "text"
           /\ files[current_file].rows[r2][j].k = "num"

\* C8: a create (Create File, Create Template File) changes no file that
\* exists, and on an existing path it reports that the file already exists.
C8_CreateNeverOverwrites ==
    [][(last'.op \in {"Create File", "Create Template File"}) =>
           /\ \A f \in FileNames : files[f].kind # "none" => files'[f] = files[f]
           /\ \A ok \in BOOLEAN :
                  /\ (CreateFile(FileX, ok) /\ files[FileX].kind # "none") =>
                         "info: File already exists." \in notices'
                  /\ (CreateTemplate(ok) /\ files[w_name].kind # "none") =>
                         "warning: File already exists." \in notices']_vars

\* C8 witness: Create File was pressed for a file that holds rows, which it
\* still holds.
C8_Witness ==
    /\ last.op = "Create File"
    /\ "info: File already exists." \in notices
    /\ files[FileX].rows # <<>>

Success ==
    {"balloons", "toast: Saved successfully", "toast: Columns deleted", "toast: Rows deleted"}

\* C9: a run whose write failed reports no success.
C9_FailedWriteReportsNoSuccess == WriteFailed => notices \cap Success = {}

IndexOf(name, cols) == CHOOSE j \in 1..Len(cols) : cols[j] = name

====
